---------------------------- MODULE Spec2Model ----------------------------
(***************************************************************************)
(* FinTrack (src/server.js, src/models/Transaction.js): an Express server  *)
(* with session authentication over a MongoDB store of transactions.       *)
(*                                                                         *)
(* Every route handler is one action.  The store, the session store and    *)
(* the clock are the state; the response of the last request is kept in    *)
(* resp so that what a handler answered can be stated about.               *)
(*                                                                         *)
(* Modelling conventions                                                   *)
(*  - An instant is an integer that orders like the JavaScript Date it     *)
(*    stands for: Stamp(y, m, d, t), t the tick of the day (tick 0 is      *)
(*    midnight).  The process runs in UTC, so local and UTC fields agree.  *)
(*  - An amount is an integer number of hundredths (0.01 is 1).            *)
(*  - A BSON value carries its type: Str(n) is the 24-hex string of the    *)
(*    n-th ObjectId, Oid(n) the ObjectId itself.                           *)
(*  - The MongoDB connection does not fail: the catch branches are         *)
(*    entered by Mongoose cast and validation errors only.                 *)
(***************************************************************************)
EXTENDS Integers, Sequences, FiniteSets, TLC

VARIABLES
    users,      \* the users collection (models/User, not part of src/)
    session,    \* the session store: session id -> userId or Null
    txns,       \* the transactions collection
    nextId,     \* number of ObjectIds handed out to transactions so far
    now,        \* the clock: what new Date() / Date.now() returns
    resp,       \* the response to the last request
    since       \* result of the trailing-window computation (SpecWindow)

vars == <<users, session, txns, nextId, now, resp, since>>

-----------------------------------------------------------------------------
(* Bounds *)

\* Transactions created in one behaviour of Spec (ObjectIds handed out).
MaxTxns == 2
\* Transactions created in one behaviour of SpecLedger.
MaxLedger == 3
\* Transactions created in one behaviour of SpecAuth.
MaxAuthTxns == 2
\* Users registered in one behaviour.
MaxUsers == 2
\* Instants per calendar day.
TicksPerDay == 2
\* Calendar years the clock of SpecWindow ranges over, from 2023 on.
NumYears == 3

Years == 2023 .. (2022 + NumYears)

-----------------------------------------------------------------------------
(* Calendar: what JavaScript's Date does with year, month index and day *)

IsLeap(y) == (y % 4 = 0 /\ y % 100 # 0) \/ y % 400 = 0

DaysInMonth(y, m) ==
    IF m = 2 THEN (IF IsLeap(y) THEN 29 ELSE 28)
    ELSE IF m \in {4, 6, 9, 11} THEN 30 ELSE 31

\* An instant: order-preserving encoding of (year, month 1..12, day, tick).
Stamp(y, m, d, t) == (((y * 12 + (m - 1)) * 32) + d) * TicksPerDay + t

TickOf(ts)  == ts % TicksPerDay
DayOf(ts)   == (ts \div TicksPerDay) % 32
MonthOf(ts) == ((ts \div (TicksPerDay * 32)) % 12) + 1
YearOf(ts)  == (ts \div (TicksPerDay * 32)) \div 12

LastTick == TicksPerDay - 1

\* new Date(year, monthIndex, day) with time fields t: month index and day
\* out of range carry into the neighbouring months (day in 0..31).
MakeDate(y, mi, d, t) ==
    LET yy == y + (mi \div 12)
        mm == (mi % 12) + 1
        py == IF mm = 1 THEN yy - 1 ELSE yy
        pm == IF mm = 1 THEN 12 ELSE mm - 1
        ny == IF mm = 12 THEN yy + 1 ELSE yy
        nm == IF mm = 12 THEN 1 ELSE mm + 1
    IN  IF d = 0 THEN Stamp(py, pm, DaysInMonth(py, pm), t)
        ELSE IF d > DaysInMonth(yy, mm)
             THEN Stamp(ny, nm, d - DaysInMonth(yy, mm), t)
             ELSE Stamp(yy, mm, d, t)

\* Date.prototype.setMonth(mi): same day of month and time, month replaced.
SetMonth(ts, mi) == MakeDate(YearOf(ts), mi, DayOf(ts), TickOf(ts))

\* Date.prototype.setDate(d)
SetDate(ts, d) == MakeDate(YearOf(ts), MonthOf(ts) - 1, d, TickOf(ts))

-----------------------------------------------------------------------------
(* Values *)

\* BSON values keep their type: MongoDB never equates a string and an ObjectId.
Str(n) == [bson |-> "string", hex |-> n]
Oid(n) == [bson |-> "objectId", hex |-> n]
Null   == [bson |-> "null", hex |-> 0]

\* Mongoose's cast of a path of type String: an ObjectId becomes its hex string.
CastString(v) == IF v.bson = "objectId" THEN Str(v.hex) ELSE v

\* ObjectId.prototype.toJSON, applied when the session is written to its store.
ToJSON(v) == IF v.bson = "objectId" THEN Str(v.hex) ELSE v

\* new mongoose.Types.ObjectId(v), v an ObjectId or a 24-hex string
ToObjectId(v) == Oid(v.hex)

\* A request field that was not sent.
Undefined == "<undefined>"

\* Raw text of a numeric form field, and parseFloat of it.
RawNum(v) == [k |-> "num", v |-> v]
RawText   == [k |-> "text", v |-> 0]
RawUndef  == [k |-> "undefined", v |-> 0]

parseFloat(raw) ==
    IF raw.k = "num" THEN [nan |-> FALSE, v |-> raw.v] ELSE [nan |-> TRUE, v |-> 0]

\* The conversion of a string argument of new Date(y, m, d) to a number, and
\* parseInt: NaN unless the text is a numeral.
ToNumber(raw) ==
    IF raw.k = "num" THEN [nan |-> FALSE, v |-> raw.v] ELSE [nan |-> TRUE, v |-> 0]

parseInt(raw) ==
    IF raw.k = "num" THEN [nan |-> FALSE, v |-> raw.v] ELSE [nan |-> TRUE, v |-> 0]

\* new Date(raw): an Invalid Date unless raw is a date string.
NewDate(raw) ==
    IF raw.k = "num" THEN [valid |-> TRUE, ts |-> raw.v] ELSE [valid |-> FALSE, ts |-> 0]

\* JavaScript's !x for a request field
Falsy(x) == x = Undefined \/ x = ""
FalsyRaw(raw) == raw.k = "undefined"

-----------------------------------------------------------------------------
(* Credentials *)

EmailA   == <<"a", "@", "x", ".", "c">>
EmailB   == <<"B", "@", "x", ".", "c">>
EmailBad == <<"a", "x", ".", "c">>
Emails   == {EmailA, EmailB, EmailBad}
Passwords == {"pw1", "pw2"}

ToLowerCase(e) == [i \in 1..Len(e) |-> IF e[i] = "B" THEN "b" ELSE e[i]]

\* /^[^\s@]+@[^\s@]+\.[^\s@]+$/ tested on the lower-cased address
validateEmail(email) ==
    LET e == ToLowerCase(email)
    IN  \E i, j \in 1..Len(e) :
            /\ 1 < i /\ i + 1 < j /\ j < Len(e)
            /\ e[i] = "@" /\ e[j] = "."
            /\ \A k \in 1..Len(e) : k # i => e[k] \notin {" ", "@"}

\* models/User: the pre-save hook stores a bcrypt hash, matchPassword compares.
HashPassword(pw) == <<"bcrypt", pw>>
matchPassword(user, pw) == user.password = HashPassword(pw)

\* User.findOne({ email })
FindUserByEmail(email) == {u \in users : u.email = email}

-----------------------------------------------------------------------------
(* State after construction *)

SIDs == {"s1", "s2"}

NoSummary == [income |-> 0, expense |-> 0, net |-> 0]

NoResp ==
    [op |-> "none", sid |-> "none", status |-> "none", to |-> "", msg |-> "",
     user |-> Null, id |-> Null, access |-> "none",
     transactions |-> <<>>, summary |-> NoSummary, monthlyBreakdown |-> <<>>,
     editTransaction |-> Null, csv |-> <<>>,
     month |-> [k |-> "undefined", parts |-> <<>>], category |-> "", at |-> 0]

\* The clock of the system specification visits these instants in order.
Instants ==
    << Stamp(2024, 2, 10, 0), Stamp(2025, 1, 10, 0), Stamp(2025, 1, 10, LastTick) >>

Init ==
    /\ users = {}
    /\ session = [s \in SIDs |-> Null]
    /\ txns = {}
    /\ nextId = 0
    /\ now = Instants[1]
    /\ resp = NoResp
    /\ since = 0

\* Time passes.
Tick ==
    /\ \E i \in 1..(Len(Instants) - 1) : now = Instants[i] /\ now' = Instants[i + 1]
    /\ UNCHANGED <<users, session, txns, nextId, resp, since>>

-----------------------------------------------------------------------------
(* Authentication routes *)

Redirect(op, s, to, msg) ==
    [NoResp EXCEPT !.op = op, !.sid = s, !.status = "redirect", !.to = to,
                   !.msg = msg, !.user = session[s]]

\* POST /register
Register(s, email, password) ==
    /\ Cardinality(users) < MaxUsers
    /\ IF ~validateEmail(email)
       THEN /\ resp' = Redirect("register", s, "/register",
                                "Please enter a valid email address format.")
            /\ UNCHANGED <<users, session>>
       ELSE IF FindUserByEmail(email) # {}
       THEN /\ resp' = Redirect("register", s, "/register",
                                "This email is already registered. Please login.")
            /\ UNCHANGED <<users, session>>
       ELSE LET newUser == [_id |-> Oid(Cardinality(users) + 1), email |-> email,
                            password |-> HashPassword(password)]
            IN  /\ users' = users \cup {newUser}
                /\ session' = [session EXCEPT ![s] = ToJSON(newUser._id)]
                /\ resp' = Redirect("register", s, "/", "")
    /\ UNCHANGED <<txns, nextId, now, since>>

\* POST /login
Login(s, email, password) ==
    /\ IF ~validateEmail(email)
       THEN /\ resp' = Redirect("login", s, "/login", "Invalid email format.")
            /\ UNCHANGED session
       ELSE LET found == FindUserByEmail(email)
            IN  IF \E u \in found : matchPassword(u, password)
                THEN LET user == CHOOSE u \in found : TRUE
                     IN  /\ session' = [session EXCEPT ![s] = ToJSON(user._id)]
                         /\ resp' = Redirect("login", s, "/", "")
                ELSE /\ resp' = Redirect("login", s, "/login", "Invalid email or password.")
                     /\ UNCHANGED session
    /\ UNCHANGED <<users, txns, nextId, now, since>>

\* GET /logout
Logout(s) ==
    /\ session' = [session EXCEPT ![s] = Null]
    /\ resp' = Redirect("logout", s, "/login", "Successfully logged out.")
    /\ UNCHANGED <<users, txns, nextId, now, since>>

\* isAuthenticated letting every request through: what C10 must tell from
\* isAuthenticated.
isAuthenticated_Always(s) == s \in SIDs

\* isAuthenticated: the request passes when req.session.userId is truthy.
isAuthenticated(s) == session[s] # Null

\* What isAuthenticated answers otherwise.
LoginRedirect(op, s) ==
    Redirect(op, s, "/login", "Please log in to view the dashboard.")

-----------------------------------------------------------------------------
(* The Transaction model and the Mongoose operations the handlers call *)

\* amount: { min: 0.01 }, in hundredths
MinAmount == 1

\* A string that is not the 24 hex digits of an ObjectId.
BadId == [bson |-> "text", hex |-> 0]

\* Mongoose's cast of _id in a query fails on anything but an ObjectId or its hex.
CastsToObjectId(v) == v.bson \in {"string", "objectId"}

\* note: { trim: true }
Trim(note) == IF note = " rent " THEN "rent" ELSE note

\* The schema's validators, run by save(): required paths, the enum of type,
\* the minimum of amount; a NaN amount or an Invalid Date fails its cast.
ValidateTransaction(type, category, amount, date) ==
    /\ type \in {"income", "expense"}
    /\ ~Falsy(category)
    /\ ~amount.nan /\ amount.v >= MinAmount
    /\ date.valid

\* The casts of an update document: no validator runs on findOneAndUpdate.
CastsUpdate(amount, date) == ~amount.nan /\ date.valid

\* FindOwned without its userId condition: what C2 must tell from FindOwned.
FindOwned_AnyOwner(id, userId) ==
    {t \in txns : t._id = ToObjectId(id)}

\* Transaction.findOne({ _id: id, userId: userId })
FindOwned(id, userId) ==
    {t \in txns : t._id = ToObjectId(id) /\ t.userId = CastString(userId)}

\* Transaction.find(filter): the documents a filter matches
Matches(t, filter) ==
    /\ t.userId = CastString(filter.userId)
    /\ filter.hasDate => (t.date >= filter.gte /\ t.date <= filter.lte)
    /\ filter.hasCategory => t.category = filter.category

Find(filter) == {t \in txns : Matches(t, filter)}

OwnerFilter(userId) ==
    [userId |-> userId, hasDate |-> FALSE, gte |-> 0, lte |-> 0,
     hasCategory |-> FALSE, category |-> ""]

\* sort({ date: -1, createdAt: -1 }); equal keys stay in insertion order
Before(a, b) ==
    \/ a.date > b.date
    \/ a.date = b.date /\ a.createdAt > b.createdAt
    \/ a.date = b.date /\ a.createdAt = b.createdAt /\ a._id.hex < b._id.hex

RECURSIVE SortListing(_)
SortListing(S) ==
    IF S = {} THEN <<>>
    ELSE LET first == CHOOSE t \in S : \A o \in S \ {t} : Before(t, o)
         IN  <<first>> \o SortListing(S \ {first})

\* sort({ date: 1 })
Earlier(a, b) == a.date < b.date \/ (a.date = b.date /\ a._id.hex < b._id.hex)

RECURSIVE SortExport(_)
SortExport(S) ==
    IF S = {} THEN <<>>
    ELSE LET first == CHOOSE t \in S : \A o \in S \ {t} : Earlier(t, o)
         IN  <<first>> \o SortExport(S \ {first})

IsIncome(t)  == t.type = "income"
IsExpense(t) == t.type = "expense"

\* reduce((sum, t) => sum + t.amount, 0)
RECURSIVE ReduceAmount(_, _)
ReduceAmount(seq, sum) ==
    IF seq = <<>> THEN sum ELSE ReduceAmount(Tail(seq), sum + Head(seq).amount)

calculateSummary(transactions) ==
    LET income  == ReduceAmount(SelectSeq(transactions, IsIncome), 0)
        expense == ReduceAmount(SelectSeq(transactions, IsExpense), 0)
    IN  [income |-> income, expense |-> expense, net |-> income - expense]

-----------------------------------------------------------------------------
(* Transaction routes *)

Render(op, s) ==
    [NoResp EXCEPT !.op = op, !.sid = s, !.status = "render", !.user = session[s]]

\* POST /add
Add(s, f) ==
    /\ IF ~isAuthenticated(s)
       THEN /\ resp' = LoginRedirect("add", s)
            /\ UNCHANGED <<txns, nextId>>
       ELSE IF Falsy(f.type) \/ Falsy(f.category) \/ FalsyRaw(f.amount) \/ FalsyRaw(f.date)
       THEN /\ resp' = Redirect("add", s, "/", "Missing required fields.")
            /\ UNCHANGED <<txns, nextId>>
       ELSE LET amount == parseFloat(f.amount)
                date   == NewDate(f.date)
            IN  IF ~ValidateTransaction(f.type, f.category, amount, date)
                THEN /\ resp' = [Redirect("add", s, "/", "ValidationError")
                                    EXCEPT !.access = "write"]
                     /\ UNCHANGED <<txns, nextId>>
                ELSE /\ txns' = txns \cup
                            {[_id |-> Oid(nextId + 1),
                              userId |-> CastString(session[s]),
                              type |-> f.type, category |-> f.category,
                              amount |-> amount.v,
                              note |-> IF f.note = Undefined THEN "" ELSE Trim(f.note),
                              date |-> date.ts,
                              createdAt |-> now, updatedAt |-> now]}
                     /\ nextId' = nextId + 1
                     /\ resp' = [Redirect("add", s, "/", "") EXCEPT !.access = "write"]
    /\ UNCHANGED <<users, session, now, since>>

\* GET /edit/:id
Edit(s, id) ==
    /\ IF ~isAuthenticated(s)
       THEN resp' = LoginRedirect("edit", s)
       ELSE IF ~CastsToObjectId(id)
       THEN resp' = [Render("edit", s) EXCEPT !.status = "error500",
                         !.msg = "Server Error", !.id = id, !.access = "read"]
       ELSE IF FindOwned(id, session[s]) = {}
       THEN resp' = [Render("edit", s) EXCEPT !.status = "error404",
                         !.msg = "Transaction not found or unauthorized.",
                         !.id = id, !.access = "read"]
       ELSE LET editTransaction == CHOOSE t \in FindOwned(id, session[s]) : TRUE
                transactions == SortListing(Find(OwnerFilter(session[s])))
            IN  resp' = [Render("edit", s) EXCEPT
                            !.id = id, !.access = "read",
                            !.transactions = transactions,
                            !.summary = calculateSummary(transactions),
                            !.monthlyBreakdown = <<>>,
                            !.editTransaction = editTransaction]
    /\ UNCHANGED <<users, session, txns, nextId, now, since>>

\* The document findOneAndUpdate writes: the $set of the fields (Mongoose
\* drops the undefined ones, and applies the trim setter of note), with
\* updatedAt stamped by { timestamps: true }.
ApplyUpdate(t, f) ==
    [t EXCEPT !.type = IF f.type = Undefined THEN @ ELSE f.type,
              !.category = IF f.category = Undefined THEN @ ELSE f.category,
              !.amount = parseFloat(f.amount).v,
              !.note = IF f.note = Undefined THEN @ ELSE Trim(f.note),
              !.date = NewDate(f.date).ts,
              !.updatedAt = now]

\* POST /update/:id
Update(s, id, f) ==
    /\ IF ~isAuthenticated(s)
       THEN /\ resp' = LoginRedirect("update", s)
            /\ UNCHANGED txns
       ELSE IF ~CastsToObjectId(id) \/ ~CastsUpdate(parseFloat(f.amount), NewDate(f.date))
       THEN /\ resp' = [Redirect("update", s, "/", "CastError")
                            EXCEPT !.id = id, !.access = "write"]
            /\ UNCHANGED txns
       ELSE IF FindOwned(id, session[s]) = {}
       THEN /\ resp' = [Redirect("update", s, "/", "Update failed.")
                            EXCEPT !.id = id, !.access = "write"]
            /\ UNCHANGED txns
       ELSE LET updated == CHOOSE t \in FindOwned(id, session[s]) : TRUE
            IN  /\ txns' = (txns \ {updated}) \cup {ApplyUpdate(updated, f)}
                /\ resp' = [Redirect("update", s, "/", "")
                                EXCEPT !.id = id, !.access = "write"]
    /\ UNCHANGED <<users, session, nextId, now, since>>

\* POST /delete/:id
Delete(s, id) ==
    /\ IF ~isAuthenticated(s)
       THEN /\ resp' = LoginRedirect("delete", s)
            /\ UNCHANGED txns
       ELSE IF ~CastsToObjectId(id)
       THEN /\ resp' = [Redirect("delete", s, "/", "CastError")
                            EXCEPT !.id = id, !.access = "write"]
            /\ UNCHANGED txns
       ELSE IF FindOwned(id, session[s]) = {}
       THEN /\ resp' = [Redirect("delete", s, "/", "Delete failed.")
                            EXCEPT !.id = id, !.access = "write"]
            /\ UNCHANGED txns
       ELSE LET deleted == CHOOSE t \in FindOwned(id, session[s]) : TRUE
            IN  /\ txns' = txns \ {deleted}
                /\ resp' = [Redirect("delete", s, "/", "")
                                EXCEPT !.id = id, !.access = "write"]
    /\ UNCHANGED <<users, session, nextId, now, since>>

\* formatters and toUpperCase / toFixed(2) of a CSV row
ToUpperCase(type) ==
    IF type = "income" THEN "INCOME" ELSE IF type = "expense" THEN "EXPENSE" ELSE "OTHER"

CsvRow(t) ==
    [date |-> <<MonthOf(t.date), DayOf(t.date), YearOf(t.date)>>,
     type |-> ToUpperCase(t.type),
     category |-> t.category,
     amount |-> t.amount,
     note |-> t.note,
     createdAt |-> <<MonthOf(t.createdAt), DayOf(t.createdAt), YearOf(t.createdAt)>>]

\* GET /export/csv
Export(s) ==
    /\ IF ~isAuthenticated(s)
       THEN resp' = LoginRedirect("export", s)
       ELSE LET transactions == SortExport(Find(OwnerFilter(session[s])))
            IN  IF Len(transactions) = 0
                THEN resp' = [Redirect("export", s, "/", "No transactions to export.")
                                EXCEPT !.access = "read"]
                ELSE resp' = [Render("export", s) EXCEPT
                                !.status = "csv", !.access = "read",
                                !.csv = [i \in 1..Len(transactions) |->
                                            CsvRow(transactions[i])]]
    /\ UNCHANGED <<users, session, txns, nextId, now, since>>

-----------------------------------------------------------------------------
(* GET / : the dashboard *)

\* A month query parameter: not sent, "all", or text that split('-') cuts into
\* parts; a part is a decimal numeral (RawNum) or other text (RawText).
MonthUndefined == [k |-> "undefined", parts |-> <<>>]
MonthAll       == [k |-> "all", parts |-> <<>>]
MonthToken(parts) == [k |-> "token", parts |-> parts]

\* const [year, month] = queryParams.month.split('-')
YearPart(q)  == q.parts[1]
MonthPart(q) == IF Len(q.parts) >= 2 THEN q.parts[2] ELSE RawUndef

\* new Date(year, parseInt(month) - 1, 1): Invalid Date when year does not
\* convert to a number or parseInt(month) is NaN.
startDate(q) ==
    LET year == ToNumber(YearPart(q))
        month == parseInt(MonthPart(q))
    IN  IF year.nan \/ month.nan THEN [valid |-> FALSE, ts |-> 0]
        ELSE [valid |-> TRUE, ts |-> MakeDate(year.v, month.v - 1, 1, 0)]

\* new Date(year, parseInt(month), 0)
endDate(q) ==
    LET year == ToNumber(YearPart(q))
        month == parseInt(MonthPart(q))
    IN  IF year.nan \/ month.nan THEN [valid |-> FALSE, ts |-> 0]
        ELSE [valid |-> TRUE, ts |-> MakeDate(year.v, month.v, 0, 0)]

HasMonth(q) == q.k = "token"
HasCategory(c) == ~Falsy(c) /\ c # "all"

\* let filter = { userId }; filter.date = ...; filter.category = ...
BuildFilter(userId, q, c) ==
    [userId |-> userId,
     hasDate |-> HasMonth(q),
     gte |-> IF HasMonth(q) THEN startDate(q).ts ELSE 0,
     lte |-> IF HasMonth(q) THEN endDate(q).ts ELSE 0,
     hasCategory |-> HasCategory(c),
     category |-> IF HasCategory(c) THEN c ELSE ""]

\* Mongoose's cast of the filter fails on an Invalid Date.
FilterCasts(q) == HasMonth(q) => (startDate(q).valid /\ endDate(q).valid)

\* twelveMonthsAgo = new Date(); setMonth(getMonth() - 11); setDate(1)
twelveMonthsAgo(current) == SetDate(SetMonth(current, (MonthOf(current) - 1) - 11), 1)

\* The $match with userId compared as the schema's String: what C8 must tell
\* from AggregateMatch.
AggregateMatch_Cast(userId, sinceDate) ==
    {t \in txns : t.userId = CastString(userId) /\ t.date >= sinceDate}

\* $match: { userId: new ObjectId(userId), date: { $gte: twelveMonthsAgo } }
\* An aggregation pipeline is sent as written: no cast to the schema's types.
AggregateMatch(userId, sinceDate) ==
    {t \in txns : t.userId = ToObjectId(userId) /\ t.date >= sinceDate}

RECURSIVE SumCond(_, _)
SumCond(S, type) ==
    IF S = {} THEN 0
    ELSE LET t == CHOOSE x \in S : TRUE
         IN  (IF t.type = type THEN t.amount ELSE 0) + SumCond(S \ {t}, type)

\* $group by { year: $year, month: $month } with the two conditional sums
GroupKey(t) == [year |-> YearOf(t.date), month |-> MonthOf(t.date)]

AggregateGroup(matched) ==
    {[_id |-> key,
      totalIncome |-> SumCond({t \in matched : GroupKey(t) = key}, "income"),
      totalExpense |-> SumCond({t \in matched : GroupKey(t) = key}, "expense")]
        : key \in {GroupKey(t) : t \in matched}}

\* $sort: { "_id.year": 1, "_id.month": 1 }
RECURSIVE AggregateSort(_)
AggregateSort(G) ==
    IF G = {} THEN <<>>
    ELSE LET first == CHOOSE g \in G : \A o \in G \ {g} :
                          \/ g._id.year < o._id.year
                          \/ g._id.year = o._id.year /\ g._id.month < o._id.month
         IN  <<first>> \o AggregateSort(G \ {first})

monthlyData(userId, current) ==
    AggregateSort(AggregateGroup(AggregateMatch(userId, twelveMonthsAgo(current))))

\* monthlyData.map(...): label, income, expense, net, monthKey
monthlyBreakdown(data) ==
    [i \in 1..Len(data) |->
        [label |-> <<data[i]._id.month, data[i]._id.year>>,
         income |-> data[i].totalIncome,
         expense |-> data[i].totalExpense,
         net |-> data[i].totalIncome - data[i].totalExpense,
         monthKey |-> <<data[i]._id.year, "-", data[i]._id.month \div 10,
                        data[i]._id.month % 10>>]]

Dashboard(s, q, c) ==
    /\ IF ~isAuthenticated(s)
       THEN resp' = LoginRedirect("dashboard", s)
       ELSE IF ~FilterCasts(q)
       THEN resp' = [Render("dashboard", s) EXCEPT !.status = "error500",
                         !.msg = "CastError", !.access = "read",
                         !.month = q, !.category = c, !.at = now]
       ELSE LET transactions == SortListing(Find(BuildFilter(session[s], q, c)))
            IN  resp' = [Render("dashboard", s) EXCEPT
                            !.access = "read",
                            !.month = q, !.category = c, !.at = now,
                            !.transactions = transactions,
                            !.summary = calculateSummary(transactions),
                            !.monthlyBreakdown =
                                monthlyBreakdown(monthlyData(session[s], now))]
    /\ UNCHANGED <<users, session, txns, nextId, now, since>>

-----------------------------------------------------------------------------
(* Requests *)

Form(type, category, amount, note, date) ==
    [type |-> type, category |-> category, amount |-> amount, note |-> note,
     date |-> date]

Jan15 == RawNum(Stamp(2024, 1, 15, 0))
Jan20 == RawNum(Stamp(2024, 1, 20, 0))
Feb01 == RawNum(Stamp(2024, 2, 1, 0))
Mar31Late == RawNum(Stamp(2024, 3, 31, LastTick))

Salary500 == Form("income", "Salary", RawNum(50000), "", Jan15)
Food200   == Form("expense", "Food", RawNum(20000), " rent ", Jan20)
Food50    == Form("expense", "Food", RawNum(5000), Undefined, Feb01)
LateMarch == Form("income", "Salary", RawNum(100), "", Mar31Late)

ValidForms == {Salary500, Food200, Food50, LateMarch}

\* The ids a request can name: every ObjectId handed out so far, the next one,
\* and a string that is no ObjectId.
IdParams == {Str(n) : n \in 1..(nextId + 1)} \cup {BadId}

January    == MonthToken(<<RawNum(2024), RawNum(1)>>)
March      == MonthToken(<<RawNum(2024), RawNum(3)>>)
Month13    == MonthToken(<<RawNum(2024), RawNum(13)>>)
NoDash     == MonthToken(<<RawNum(202403)>>)
NotNumeric == MonthToken(<<RawText>>)

-----------------------------------------------------------------------------------------------------------------------------------------------------
(* Spec: two accounts, each in its own browser, on every transaction route *)

AddForms ==
    { Salary500, Food200,
      [Salary500 EXCEPT !.amount = RawNum(-500)],
      [Salary500 EXCEPT !.amount = RawUndef],
      [Salary500 EXCEPT !.type = "other"] }

UpdateForms ==
    { Food200,
      [Salary500 EXCEPT !.amount = RawNum(-500)],
      [Salary500 EXCEPT !.amount = RawText],
      [Food200 EXCEPT !.type = "other"] }

Queries == {<<MonthUndefined, Undefined>>, <<January, "Food">>}

Next ==
    \/ Register("s1", EmailA, "pw1")
    \/ Register("s2", EmailB, "pw2")
    \/ \E s \in SIDs, q \in Queries : Dashboard(s, q[1], q[2])
    \/ \E s \in SIDs, f \in AddForms : nextId < MaxTxns /\ Add(s, f)
    \/ \E s \in SIDs, id \in IdParams : Edit(s, id)
    \/ \E s \in SIDs, id \in IdParams : Delete(s, id)
    \/ \E s \in SIDs, id \in IdParams, f \in UpdateForms : Update(s, id, f)
    \/ \E s \in SIDs : Export(s)

Spec == Init /\ [][Next]_vars

-----------------------------------------------------------------------------
(* SpecAuth: registering, logging in and out of two browsers, between      *)
(* requests to every protected route                                       *)

NextAuth ==
    \/ \E s \in SIDs, e \in Emails : Register(s, e, "pw1")
    \/ \E s \in SIDs, e \in Emails, p \in Passwords : Login(s, e, p)
    \/ \E s \in SIDs : Logout(s)
    \/ \E s \in SIDs : Dashboard(s, MonthUndefined, Undefined)
    \/ \E s \in SIDs, f \in {Salary500, [Salary500 EXCEPT !.amount = RawUndef]} :
          nextId < MaxAuthTxns /\ Add(s, f)
    \/ \E s \in SIDs, id \in IdParams : Edit(s, id)
    \/ \E s \in SIDs, id \in IdParams : Update(s, id, Food50)
    \/ \E s \in SIDs, id \in IdParams : Delete(s, id)
    \/ \E s \in SIDs : Export(s)

SpecAuth == Init /\ [][NextAuth]_vars

-----
(* SpecLedger: two accounts enter their transactions, then time passes while *)
(* they look at the dashboard under every kind of month query               *)

LedgerQueries ==
    {<<q, Undefined>> :
        q \in {MonthUndefined, MonthAll, January, March, Month13, NoDash, NotNumeric}}
    \cup {<<January, "Food">>}

\* The first account enters any of the forms, the second one form.
LedgerEntries == {<<"s1", f>> : f \in ValidForms} \cup {<<"s2", Food50>>}

NextLedger ==
    \/ Tick
    \/ Register("s1", EmailA, "pw1")
    \/ Register("s2", EmailB, "pw2")
    \/ \E e \in LedgerEntries :
          now = Instants[1] /\ nextId < MaxLedger /\ Add(e[1], e[2])
    \/ \E s \in SIDs, q \in LedgerQueries : Dashboard(s, q[1], q[2])

SpecLedger == Init /\ [][NextLedger]_vars

-----------------------------------------------------------------------------
(* SpecWindow: the trailing-window computation at every instant of the years *)

AllInstants ==
    {Stamp(y, m, d, t) : y \in Years, m \in 1..12, d \in 1..31, t \in 0..LastTick}

InitWindow ==
    /\ users = {}
    /\ session = [s \in SIDs |-> Null]
    /\ txns = {}
    /\ nextId = 0
    /\ now \in {ts \in AllInstants : DayOf(ts) <= DaysInMonth(YearOf(ts), MonthOf(ts))}
    /\ resp = NoResp
    /\ since = 0

\* server.js 203-205 on its own
ComputeWindow ==
    /\ since = 0
    /\ since' = twelveMonthsAgo(now)
    /\ UNCHANGED <<users, session, txns, nextId, now, resp>>

NextWindow == ComputeWindow

SpecWindow == InitWindow /\ [][NextWindow]_vars

-----------------------------------------------------------------------------
(* What the claims speak of *)

Protected == {"dashboard", "add", "edit", "update", "delete", "export"}

\* The owner of a stored transaction and the account a response was made for.
OwnerOf(t) == t.userId.hex
Requester(r) == r.user.hex

OwnedBy(S, u) == {t \in S : OwnerOf(t) = u}

RECURSIVE SumAmounts(_)
SumAmounts(S) ==
    IF S = {} THEN 0
    ELSE LET t == CHOOSE x \in S : TRUE IN t.amount + SumAmounts(S \ {t})

OfKind(S, kind) == {t \in S : t.type = kind}

Listed(r) == {r.transactions[i] : i \in DOMAIN r.transactions}

\* A month query that names a calendar month: two numerals, the month in 1..12.
IsCalendarMonth(q) ==
    /\ q.k = "token" /\ Len(q.parts) = 2
    /\ q.parts[1].k = "num" /\ q.parts[2].k = "num"
    /\ q.parts[2].v \in 1..12

IsMalformedMonth(q) == q.k = "token" /\ ~IsCalendarMonth(q)

InCalendarMonth(t, q) ==
    YearOf(t.date) = q.parts[1].v /\ MonthOf(t.date) = q.parts[2].v

InCategory(t, c) == (c \in {Undefined, "", "all"}) \/ t.category = c

\* The first instant of the month eleven months before the month of ts.
WindowStartOf(ts) ==
    LET mi == YearOf(ts) * 12 + (MonthOf(ts) - 1) - 11
    IN  Stamp(mi \div 12, (mi % 12) + 1, 1, 0)

MonthsOf(S) == {<<YearOf(t.date), MonthOf(t.date)>> : t \in S}
InMonth(S, ym) == {t \in S : <<YearOf(t.date), MonthOf(t.date)>> = ym}
EntryMonth(e) == <<e.label[2], e.label[1]>>

Rendered(r, op) == r.op = op /\ r.status = "render"

-----------------------------------------------------------------------------
(* C1 *)

\* C1: every stored transaction has amount >= 0.01 and kind income or expense,
\* whatever creates, updates and deletes were requested.
C1_StoredTransactionsValid ==
    \A t \in txns : t.amount >= MinAmount /\ t.type \in {"income", "expense"}

-----------------------------------------------------------------------------
(* C2 *)

\* C2: ownership isolation.  Whatever a request answers (dashboard list, edit
\* lookup, monthly aggregate, CSV export) is made of the requester's own
\* transactions only, and no request changes or removes a transaction of
\* another owner.
C2_OwnershipIsolation ==
    [][ LET r == resp'
            u == Requester(r)
            own == OwnedBy(txns, u)
        IN  /\ \A t \in Listed(r) : OwnerOf(t) = u /\ t \in txns
            /\ r.editTransaction # Null =>
                   OwnerOf(r.editTransaction) = u /\ r.editTransaction \in txns
            /\ \A i \in DOMAIN r.monthlyBreakdown :
                   LET e == r.monthlyBreakdown[i]
                       mine == {t \in InMonth(own, EntryMonth(e)) :
                                    t.date >= twelveMonthsAgo(r.at)}
                   IN  /\ mine # {}
                       /\ e.income = SumAmounts(OfKind(mine, "income"))
                       /\ e.expense = SumAmounts(OfKind(mine, "expense"))
            /\ Len(r.csv) = Cardinality(IF r.status = "csv" THEN own ELSE {})
            /\ \A i \in DOMAIN r.csv : \E t \in own : r.csv[i] = CsvRow(t)
            /\ \A t \in txns : OwnerOf(t) # u => t \in txns'
      ]_vars

\* An account asked to delete a transaction that exists and belongs to
\* another account.
C2_Witness ==
    /\ resp.op = "delete" /\ isAuthenticated(resp.sid)
    /\ \E t \in txns : t._id = ToObjectId(resp.id) /\ OwnerOf(t) # Requester(resp)

-----------------------------------------------------------------------------
(* C3 *)

NamesOwned(r) ==
    \E t \in txns : r.id.bson = "string" /\ t._id.hex = r.id.hex /\ OwnerOf(t) = Requester(r)

\* C3: an authenticated update or delete whose id names no transaction of the
\* requester answers "Update failed." / "Delete failed." and leaves the store
\* as it was; a successful update changes the targeted record only, and
\* neither its owner nor its createdAt.
C3_UnownedIdFails ==
    [][ LET r == resp'
        IN  (r.op \in {"update", "delete"} /\ r.user # Null) =>
              IF ~NamesOwned(r)
              THEN /\ r.msg = (IF r.op = "update" THEN "Update failed."
                                                  ELSE "Delete failed.")
                   /\ txns' = txns
              ELSE r.op = "update" =>
                     /\ \A t \in txns : t._id.hex # r.id.hex => t \in txns'
                     /\ \A t \in txns' : t._id.hex # r.id.hex => t \in txns
                     /\ \A t \in txns : t._id.hex = r.id.hex =>
                          \E t2 \in txns' : /\ t2._id = t._id
                                            /\ t2.userId = t.userId
                                            /\ t2.createdAt = t.createdAt
      ]_vars

-----------------------------------------------------------------------------
(* C10 *)

\* C10: a protected route reaches the transaction store only for a session
\* that holds a userId; a session holds a userId only from a successful
\* register or login of that session until its logout; without one the
\* request is redirected to /login and the store is unchanged; a failed
\* login sets no userId.
C10_ProtectedNeedsSession ==
    [][ LET r == resp'
        IN  r.op # "none" =>
            /\ r.op \in Protected =>
                 IF session[r.sid] = Null
                 THEN /\ r.status = "redirect" /\ r.to = "/login"
                      /\ r.access = "none"
                      /\ txns' = txns
                 ELSE r.to # "/login"
            /\ r.access # "none" => (r.op \in Protected /\ session[r.sid] # Null)
            /\ txns' # txns => (r.op \in Protected /\ session[r.sid] # Null)
            /\ \A s \in SIDs :
                 (session'[s] # session[s] /\ session'[s] # Null) =>
                     /\ r.op \in {"register", "login"} /\ r.sid = s /\ r.to = "/"
                     /\ \E usr \in users' : session'[s] = ToJSON(usr._id)
            /\ (r.op = "login" /\ r.to = "/login") => session' = session
            /\ r.op = "logout" => session'[r.sid] = Null
      ]_vars

\* Transactions exist, every session has since logged out, and a protected
\* request was turned away.
C10_Witness ==
    /\ resp.op \in Protected /\ resp.to = "/login"
    /\ txns # {}
    /\ \A s \in SIDs : session[s] = Null

-----------------------------------------------------------------------------
(* C4 *)

\* C4: under a month query naming a calendar month (and no category), the
\* dashboard lists exactly the requester's transactions whose date falls on
\* a day of that month, the last day at any time of day included.
C4_MonthFilterIsCalendarMonth ==
    (Rendered(resp, "dashboard") /\ IsCalendarMonth(resp.month)
        /\ resp.category = Undefined) =>
      Listed(resp) =
          {t \in OwnedBy(txns, Requester(resp)) : InCalendarMonth(t, resp.month)}

-----------------------------------------------------------------------------
(* C5 *)

\* C5: a dashboard request of a logged-in session with a malformed month
\* token is answered as under "all": it renders, and lists all of the
\* requester's transactions of the category asked for.
C5_MalformedMonthIsAll ==
    (resp.op = "dashboard" /\ resp.user # Null /\ IsMalformedMonth(resp.month)) =>
      /\ resp.status = "render"
      /\ Listed(resp) =
           {t \in OwnedBy(txns, Requester(resp)) : InCategory(t, resp.category)}

-----------------------------------------------------------------------------
(* C6 *)

\* C6: at every instant, the aggregator's sinceDate lies on the first day of
\* the month eleven months before the current month.
C6_SinceIsElevenMonthsBack ==
    since # 0 =>
      /\ YearOf(since) = YearOf(WindowStartOf(now))
      /\ MonthOf(since) = MonthOf(WindowStartOf(now))
      /\ DayOf(since) = 1

-----------------------------------------------------------------------------
(* C7 *)

\* The requester's transactions of the trailing twelve months at instant ts.
InWindow(u, ts) == {t \in OwnedBy(txns, u) : t.date >= WindowStartOf(ts)}

\* C7: the monthly breakdown has one entry for each month in which the
\* requester has a transaction of the trailing window, in ascending order of
\* (year, month), with income and expense the sums over the requester's
\* records of that month and kind, and net their difference.
C7_BreakdownPerMonth ==
    Rendered(resp, "dashboard") =>
      LET b == resp.monthlyBreakdown
          mine == InWindow(Requester(resp), resp.at)
      IN  /\ {EntryMonth(b[i]) : i \in DOMAIN b} = MonthsOf(mine)
          /\ Len(b) = Cardinality(MonthsOf(mine))
          /\ \A i, j \in DOMAIN b : i < j =>
                \/ EntryMonth(b[i])[1] < EntryMonth(b[j])[1]
                \/ /\ EntryMonth(b[i])[1] = EntryMonth(b[j])[1]
                   /\ EntryMonth(b[i])[2] < EntryMonth(b[j])[2]
          /\ \A i \in DOMAIN b :
                /\ b[i].income =
                     SumAmounts(OfKind(InMonth(mine, EntryMonth(b[i])), "income"))
                /\ b[i].expense =
                     SumAmounts(OfKind(InMonth(mine, EntryMonth(b[i])), "expense"))
                /\ b[i].net = b[i].income - b[i].expense

-----------------------------------------------------------------------------
(* C8 *)

\* The instants of the calendar day of ts.
SameDay(ts) ==
    {Stamp(YearOf(ts), MonthOf(ts), DayOf(ts), t) : t \in 0..LastTick}

-----------------------------------------------------------------------------
(* C9 *)

\* The requester's transactions that match the month and category asked for.
MatchingQuery(r) ==
    {t \in OwnedBy(txns, Requester(r)) :
        /\ IsCalendarMonth(r.month) => InCalendarMonth(t, r.month)
        /\ InCategory(t, r.category)}

\* C9: under a month query that is absent, "all" or a calendar month, the
\* dashboard lists exactly the requester's matching transactions, once each,
\* and its summary is their income, their expense and the difference.
C9_SummaryOverMatching ==
    (Rendered(resp, "dashboard") /\ ~IsMalformedMonth(resp.month)) =>
      /\ Listed(resp) = MatchingQuery(resp)
      /\ Len(resp.transactions) = Cardinality(MatchingQuery(resp))
      /\ resp.summary.income = SumAmounts(OfKind(MatchingQuery(resp), "income"))
      /\ resp.summary.expense = SumAmounts(OfKind(MatchingQuery(resp), "expense"))
      /\ resp.summary.net = resp.summary.income - resp.summary.expense

=============================================================================
